---- MODULE Spec2Model ----
(***************************************************************************)
(* RFID door access controller (rfid.ino): the persistent credential       *)
(* registry kept in EEPROM and the controller that drives it from scans.    *)
(*                                                                         *)
(* EEPROM layout: byte 0 = count, byte 1 = master-defined marker (143),     *)
(* bytes 2..5 = master card, bytes 6.. = registered cards, 4 bytes each.    *)
(* Every EEPROM.write is one step, so that a power loss can fall between    *)
(* any two writes of writeID, deleteID and the master definition.           *)
(*                                                                         *)
(* Spec: the controller from a blank device, with power losses. SpecFair:  *)
(* the same with the processor running. SpecAged: one session of a device   *)
(* with 63 registered cards. SpecStore: the store functions called alone.   *)
(***************************************************************************)
EXTENDS Integers, Sequences, FiniteSets, TLC

\* ---------------------------------------------------------------- constants
EEPROMLength == 1024
ByteMod == 256
MagicNumber == 143
ServoClosed == 5
ServoOpen == 90
HeaderBytes == 6

\* The most registered cards an operator adds through scans (Spec).
MaxCount == 2
\* The most power losses (restarts) in one behaviour (Spec).
MaxLosses == 1
\* The most store calls other than the canonical fill the driver makes (SpecStore).
MaxOps == 2

Byte == 0..(ByteMod - 1)
Addr == 0..(EEPROMLength - 1)
\* N_max: 4-byte slots that fit after the 6 header bytes.
NMax == (EEPROMLength - HeaderBytes) \div 4

LOW == 0
HIGH == 1
NoCard == <<>>
ZeroCard == <<0, 0, 0, 0>>
\* The cards the reader presents: none is all-zero, one has a zero first byte.
Cards == {<<9, 9, 9, 9>>, <<1, 2, 3, 4>>, <<0, 1, 2, 3>>}
\* Reader firmware versions reported at start-up: a good one and a failed link.
ReaderVersions == {146, 0}

VARIABLES
    eeprom,       \* persistent store, Addr -> Byte
    match,        \* global `match`
    programMode,  \* global `programMode`
    openDoor,     \* global `openDoor`
    successRead,  \* global `successRead`
    storedCard,   \* global `storedCard`
    readCard,     \* global `readCard`
    masterCard,   \* global `masterCard`
    servo,        \* last position commanded to the lock servo
    signal,       \* feedback pattern emitted by the last step
    pc,           \* control position
    loc,          \* locals of the running loop: x, j, num, start, looping
    wrote,        \* whether the last step issued an EEPROM.write
    pinWipe,      \* the last value read from PIN_WIPE
    losses,       \* environment: number of power losses so far
    inserted,     \* driver: credentials passed to writeID so far, in order
    last,         \* driver: the last store call and its pre-state
    ops,          \* driver: number of non-fill calls made
    removed       \* driver: whether deleteID has been called

vars == <<eeprom, match, programMode, openDoor, successRead, storedCard,
          readCard, masterCard, servo, signal, pc, loc, wrote, pinWipe, losses,
          inserted, last, ops, removed>>

volatile == <<match, programMode, openDoor, successRead, storedCard,
              readCard, masterCard>>
driver == <<inserted, last, ops, removed>>

NoLoc == [x |-> 0, j |-> 0, num |-> 0, start |-> 0, looping |-> 0]
NoCall == [op |-> "none", arg |-> ZeroCard, ret |-> FALSE, hang |-> FALSE,
           pre |-> <<>>, preMatch |-> FALSE]

\* ------------------------------------------------------------ store helpers
ZeroStore == [a \in Addr |-> 0]

\* readID: the four bytes of slot `number`; the start address is a uint8_t.
readID(e, number) ==
    LET start == ((number * 4) + 2) % ByteMod
    IN  [i \in 1..4 |-> e[start + (i - 1)]]

\* checkTwo: the new value of the global `match`, which is also the result.
\* `match` is set only when a[0] != 0; otherwise its old value is used.
checkTwo(m, a, b) ==
    LET m1 == IF a[1] # 0 THEN TRUE ELSE m
    IN  IF \E k \in 1..4 : a[k] # b[k] THEN FALSE ELSE m1

\* The loop of findID / findIDSLOT, iterations lo .. hi-1 in order, leaving
\* at the first match. Iteration n reads slot i = (n + 1) mod 256 (i is a
\* uint8_t); the later half runs only if the earlier half found nothing.
RECURSIVE findLoop(_, _, _, _, _, _)
findLoop(e, m, sc, find, lo, hi) ==
    IF hi <= lo THEN [ret |-> FALSE, match |-> m, stored |-> sc, slot |-> 0]
    ELSE IF hi = lo + 1
    THEN LET i  == (lo + 1) % ByteMod
             s  == readID(e, i)
             m2 == checkTwo(m, find, s)
         IN  [ret |-> m2, match |-> m2, stored |-> s, slot |-> i]
    ELSE LET mid == (lo + hi) \div 2
             l   == findLoop(e, m, sc, find, lo, mid)
         IN  IF l.ret THEN l ELSE findLoop(e, l.match, l.stored, find, mid, hi)

\* The loop `for (uint8_t i = 1; i <= count; i++)`: count iterations when
\* count < 255. With count = 255 the condition is always true: after 256
\* iterations i is 1 again and nothing new can happen (match can only stay
\* or become false), so without a match the call never returns (hang).
findScan(e, m, sc, find) ==
    LET n == IF e[0] = ByteMod - 1 THEN ByteMod ELSE e[0]
        r == findLoop(e, m, sc, find, 0, n)
    IN  [ret |-> r.ret, hang |-> ~r.ret /\ e[0] = ByteMod - 1,
         match |-> r.match, stored |-> r.stored, slot |-> r.slot]

\* A findID that reports every card as found.
findIDAlways(e, m, sc, find) == [findScan(e, m, sc, find) EXCEPT !.ret = TRUE]

findID(e, m, sc, find) == findScan(e, m, sc, find)

\* findIDSLOT: the slot found; falling off the end returns no value, so the
\* caller may see any byte.
findIDSLOT(e, m, sc, find) ==
    LET f == findScan(e, m, sc, find)
    IN  [f EXCEPT !.slot = IF f.ret THEN {f.slot} ELSE Byte]

isMaster(m, test, master) == checkTwo(m, test, master)

\* ------------------------------------------------------------------ writeID
\* The t-th EEPROM.write of writeID (t = 0..4): the incremented count first
\* (line 426), then the four payload bytes at start + j (lines 427-429).
writeIDWrite(e, a, num, start, t) ==
    IF t = 0 THEN [e EXCEPT ![0] = (num + 1) % ByteMod]
    ELSE [e EXCEPT ![start + (t - 1)] = a[t]]

WriteIDWrites == 5

\* writeID up to its first write: the findID check and the locals.
writeIDPrep(e, m, sc, a) ==
    LET f == findID(e, m, sc, a)
    IN  [kind   |-> IF f.hang THEN "hang" ELSE IF f.ret THEN "fail" ELSE "go",
         match  |-> f.match,
         stored |-> f.stored,
         num    |-> e[0],
         start  |-> ((e[0] * 4) + 6) % ByteMod,
         looping |-> 0]

\* The writes t = lo .. hi-1 of writeID, in order.
RECURSIVE writeIDRange(_, _, _, _, _, _)
writeIDRange(e, a, num, start, lo, hi) ==
    IF hi <= lo THEN e
    ELSE IF hi = lo + 1 THEN writeIDWrite(e, a, num, start, lo)
    ELSE LET mid == (lo + hi) \div 2
         IN  writeIDRange(writeIDRange(e, a, num, start, lo, mid), a, num, start, mid, hi)

\* writeID as one call: the store afterwards and the value returned.
writeID(e, m, sc, a) ==
    LET p == writeIDPrep(e, m, sc, a)
    IN  [eeprom |-> IF p.kind = "go" THEN writeIDRange(e, a, p.num, p.start, 0, WriteIDWrites) ELSE e,
         ret    |-> p.kind = "go",
         hang   |-> p.kind = "hang",
         match  |-> p.match,
         stored |-> p.stored]

\* ----------------------------------------------------------------- deleteID
\* The number of EEPROM.write calls of deleteID: count, shift, zero-fill.
deleteIDWrites(looping) == looping + 5

\* The t-th EEPROM.write of deleteID: the decremented count first (line 456),
\* then `looping` shifted bytes (457-459), then four zero bytes (460-462).
deleteIDWrite(e, num, start, looping, t) ==
    IF t = 0 THEN [e EXCEPT ![0] = (num - 1) % ByteMod]
    ELSE IF t <= looping THEN [e EXCEPT ![start + (t - 1)] = e[start + 4 + (t - 1)]]
    ELSE [e EXCEPT ![start + looping + (t - looping - 1)] = 0]

\* deleteID up to its first write: the outcomes of the findID check and of
\* findIDSLOT (a set: findIDSLOT may return any byte when it finds nothing).
deleteIDPrep(e, m, sc, a) ==
    LET f == findID(e, m, sc, a)
    IN  IF f.hang \/ ~f.ret
        THEN {[kind |-> IF f.hang THEN "hang" ELSE "fail", match |-> f.match,
               stored |-> f.stored, num |-> e[0], start |-> 0, looping |-> 0]}
        ELSE LET g == findIDSLOT(e, f.match, f.stored, a)
             IN  {[kind   |-> IF g.hang THEN "hang" ELSE "go",
                   match  |-> g.match,
                   stored |-> g.stored,
                   num    |-> e[0],
                   start  |-> ((slot * 4) + 2) % ByteMod,
                   looping |-> ((e[0] - slot) * 4) % ByteMod] : slot \in g.slot}

\* The writes t = lo .. hi-1 of deleteID, in order.
RECURSIVE deleteIDRange(_, _, _, _, _, _)
deleteIDRange(e, num, start, looping, lo, hi) ==
    IF hi <= lo THEN e
    ELSE IF hi = lo + 1 THEN deleteIDWrite(e, num, start, looping, lo)
    ELSE LET mid == (lo + hi) \div 2
         IN  deleteIDRange(deleteIDRange(e, num, start, looping, lo, mid),
                           num, start, looping, mid, hi)

\* deleteID as one call: the possible stores afterwards with the value returned.
deleteID(e, m, sc, a) ==
    {[eeprom |-> IF p.kind = "go" THEN deleteIDRange(e, p.num, p.start, p.looping, 0, deleteIDWrites(p.looping)) ELSE e,
      ret    |-> p.kind = "go",
      hang   |-> p.kind = "hang",
      match  |-> p.match,
      stored |-> p.stored] : p \in deleteIDPrep(e, m, sc, a)}

\* --------------------------------------------------------------- controller
\* State at power-on: the globals as initialised at lines 79-87.
Boot ==
    /\ match = FALSE
    /\ programMode = FALSE
    /\ openDoor = TRUE
    /\ successRead = 0
    /\ storedCard = ZeroCard
    /\ readCard = ZeroCard
    /\ masterCard = ZeroCard
    /\ signal = "none"
    /\ loc = NoLoc

Init ==
    /\ eeprom = ZeroStore
    /\ Boot
    /\ servo \in {ServoClosed, ServoOpen}
    /\ pc = "boot"
    /\ wrote = FALSE
    /\ pinWipe = HIGH
    /\ losses = 0
    /\ inserted = <<>>
    /\ last = NoCall
    /\ ops = 0
    /\ removed = FALSE

\* A granted() that ignores `openDoor` and always opens.
grantedServoOpens(od) == ServoOpen

\* granted(): one tone, then the servo to the position `openDoor` selects.
grantedServo(od) == IF od THEN ServoOpen ELSE ServoClosed

\* setup(), lines 95-132: servo to the closed position, reader self-check
\* (ShowReaderDetails halts on a dead reader, before the pin is read), first
\* sample of the wipe pin.
SetupStart ==
    /\ pc = "boot"
    /\ \E v \in ReaderVersions, pin \in {LOW, HIGH} :
          IF v = 0 \/ v = 255
          THEN /\ pc' = "reader_halt"
               /\ UNCHANGED pinWipe
          ELSE /\ pc' = IF pin = LOW THEN "wipe_wait" ELSE "check_master"
               /\ pinWipe' = pin
    /\ servo' = ServoClosed
    /\ wrote' = FALSE
    /\ UNCHANGED <<eeprom, volatile, signal, loc, losses, driver>>

\* The wipe confirmation without the test of line 143: the pin is read after
\* the window, but the wipe starts whatever it reads.
WipeConfirmNoResample ==
    /\ pc = "wipe_wait"
    /\ \E pin \in {LOW, HIGH} : pinWipe' = pin
    /\ pc' = "wipe"
    /\ signal' = "none"
    /\ loc' = NoLoc
    /\ wrote' = FALSE
    /\ UNCHANGED <<eeprom, volatile, servo, losses, driver>>

\* setup(), lines 140-147 and 169-173: after the 10 s window the pin is
\* sampled again; still LOW starts the wipe loop, otherwise two tones.
WipeConfirm ==
    /\ pc = "wipe_wait"
    /\ \E pin \in {LOW, HIGH} :
          /\ IF pin = LOW
             THEN /\ pc' = IF 0 < EEPROMLength THEN "wipe" ELSE "check_master"
                  /\ signal' = IF 0 < EEPROMLength THEN "none" ELSE "one"
             ELSE /\ pc' = "check_master"
                  /\ signal' = "two"
          /\ pinWipe' = pin
    /\ loc' = NoLoc
    /\ wrote' = FALSE
    /\ UNCHANGED <<eeprom, volatile, servo, losses, driver>>

\* The wipe loop without the read of lines 157-159: every byte is written.
WipeStepAlways ==
    /\ pc = "wipe"
    /\ eeprom' = [eeprom EXCEPT ![loc.x] = 0]
    /\ wrote' = TRUE
    /\ LET x2 == (loc.x + 1) % ByteMod
       IN  IF x2 < EEPROMLength
           THEN /\ loc' = [loc EXCEPT !.x = x2]
                /\ pc' = "wipe"
                /\ signal' = "none"
           ELSE /\ loc' = NoLoc
                /\ pc' = "check_master"
                /\ signal' = "one"
    /\ UNCHANGED <<volatile, servo, pinWipe, losses, driver>>

\* One iteration of the wipe loop, lines 147-165: x is a uint8_t, so x + 1
\* is taken modulo 256 before it is compared with EEPROM.length().
WipeStep ==
    /\ pc = "wipe"
    /\ IF eeprom[loc.x] = 0
       THEN /\ eeprom' = eeprom
            /\ wrote' = FALSE
       ELSE /\ eeprom' = [eeprom EXCEPT ![loc.x] = 0]
            /\ wrote' = TRUE
    /\ LET x2 == (loc.x + 1) % ByteMod
       IN  IF x2 < EEPROMLength
           THEN /\ loc' = [loc EXCEPT !.x = x2]
                /\ pc' = "wipe"
                /\ signal' = "none"
           ELSE /\ loc' = NoLoc
                /\ pc' = "check_master"
                /\ signal' = "one"
    /\ UNCHANGED <<volatile, servo, pinWipe, losses, driver>>

\* setup(), lines 188 and 207-217: with the marker present the master card
\* is loaded from bytes 2..5 and loop() starts; otherwise bootstrap polls.
CheckMaster ==
    /\ pc = "check_master"
    /\ IF eeprom[1] # MagicNumber
       THEN /\ pc' = "bootstrap"
            /\ UNCHANGED masterCard
       ELSE /\ pc' = "poll"
            /\ masterCard' = [i \in 1..4 |-> eeprom[2 + (i - 1)]]
    /\ signal' = "none"
    /\ wrote' = FALSE
    /\ UNCHANGED <<eeprom, match, programMode, openDoor, successRead, storedCard,
                   readCard, servo, loc, pinWipe, losses, driver>>

\* setup(), lines 191-195: the do-while ends on the first successful read.
BootstrapScan ==
    /\ pc = "bootstrap"
    /\ \E c \in Cards : readCard' = c
    /\ successRead' = 1
    /\ signal' = "cycle"
    /\ loc' = NoLoc
    /\ pc' = "define_master"
    /\ wrote' = FALSE
    /\ UNCHANGED <<eeprom, match, programMode, openDoor, storedCard, masterCard,
                   servo, pinWipe, losses, driver>>

\* The master definition with the marker written first and the four master
\* bytes after it.
DefineMasterStepMarkerFirst ==
    /\ pc = "define_master"
    /\ IF loc.j = 0
       THEN /\ eeprom' = [eeprom EXCEPT ![1] = MagicNumber]
            /\ UNCHANGED masterCard
       ELSE /\ eeprom' = [eeprom EXCEPT ![2 + (loc.j - 1)] = readCard[loc.j]]
            /\ masterCard' = IF loc.j < 4 THEN masterCard
                             ELSE [i \in 1..4 |-> eeprom'[2 + (i - 1)]]
    /\ IF loc.j < 4
       THEN /\ loc' = [loc EXCEPT !.j = loc.j + 1]
            /\ pc' = "define_master"
            /\ signal' = "none"
       ELSE /\ loc' = NoLoc
            /\ pc' = "poll"
            /\ signal' = "ack"
    /\ wrote' = TRUE
    /\ UNCHANGED <<match, programMode, openDoor, successRead, storedCard, readCard,
                   servo, pinWipe, losses, driver>>

\* setup(), lines 197-213: the four master bytes at 2 + j, then the marker,
\* after which the master is loaded into RAM and loop() starts.
DefineMasterStep ==
    /\ pc = "define_master"
    /\ IF loc.j < 4
       THEN /\ eeprom' = [eeprom EXCEPT ![2 + loc.j] = readCard[loc.j + 1]]
            /\ loc' = [loc EXCEPT !.j = loc.j + 1]
            /\ pc' = "define_master"
            /\ signal' = "none"
            /\ UNCHANGED masterCard
       ELSE /\ eeprom' = [eeprom EXCEPT ![1] = MagicNumber]
            /\ loc' = NoLoc
            /\ pc' = "poll"
            /\ signal' = "ack"
            /\ masterCard' = [i \in 1..4 |-> eeprom[2 + (i - 1)]]
    /\ wrote' = TRUE
    /\ UNCHANGED <<match, programMode, openDoor, successRead, storedCard, readCard,
                   servo, pinWipe, losses, driver>>

\* Whether a scan of r handled now in programming mode would reach writeID's
\* writes (r is neither taken for the master nor found in the store).
WouldAdd(r) ==
    LET m1 == isMaster(match, r, masterCard)
    IN  /\ ~m1
        /\ ~findID(eeprom, m1, storedCard, r).ret

\* The reads the operator offers: in programming mode no further card is
\* added once MaxCount cards are registered on top of those the store
\* started with (`inserted`; none in Spec).
Offered ==
    {r \in Cards \cup {NoCard} :
        r = NoCard \/ ~programMode \/ eeprom[0] < Len(inserted) + MaxCount
            \/ ~WouldAdd(r)}

\* loop(), lines 225-229: one getID() and the first sample of the wipe pin.
LoopPoll ==
    /\ pc = "poll"
    /\ \E r \in Offered, pin \in {LOW, HIGH} :
          /\ successRead' = IF r = NoCard THEN 0 ELSE 1
          /\ readCard' = IF r = NoCard THEN readCard ELSE r
          /\ pc' = IF pin = LOW THEN "mwipe_wait"
                   ELSE IF r = NoCard THEN "poll" ELSE "scan"
          /\ pinWipe' = pin
    /\ signal' = "none"
    /\ wrote' = FALSE
    /\ UNCHANGED <<eeprom, match, programMode, openDoor, storedCard, masterCard,
                   servo, loc, losses, driver>>

\* The master wipe without the `while (1);` of line 243: the marker is
\* cleared and the loop goes on.
MasterWipeConfirmNoHalt ==
    /\ pc = "mwipe_wait"
    /\ \E pin \in {LOW, HIGH} :
          /\ IF pin = LOW
             THEN /\ eeprom' = [eeprom EXCEPT ![1] = 0]
                  /\ wrote' = TRUE
                  /\ signal' = "ack"
             ELSE /\ eeprom' = eeprom
                  /\ wrote' = FALSE
                  /\ signal' = "none"
          /\ pc' = IF successRead = 1 THEN "scan" ELSE "poll"
          /\ pinWipe' = pin
    /\ UNCHANGED <<volatile, servo, loc, losses, driver>>

\* loop(), lines 236-248: after the 5 s window the pin is sampled again;
\* still LOW clears the marker and halts, otherwise the loop goes on.
MasterWipeConfirm ==
    /\ pc = "mwipe_wait"
    /\ \E pin \in {LOW, HIGH} :
          /\ IF pin = LOW
             THEN /\ eeprom' = [eeprom EXCEPT ![1] = 0]
                  /\ wrote' = TRUE
                  /\ signal' = "ack"
                  /\ pc' = "halt"
             ELSE /\ eeprom' = eeprom
                  /\ wrote' = FALSE
                  /\ signal' = "none"
                  /\ pc' = IF successRead = 1 THEN "scan" ELSE "poll"
          /\ pinWipe' = pin
    /\ UNCHANGED <<volatile, servo, loc, losses, driver>>

\* loop(), lines 251-340: the scan in readCard is handled. In programming
\* mode the master leaves the mode, a known card goes to deleteID and an
\* unknown one to writeID (their writes follow as steps); in normal mode the
\* master is granted and polled for again, a known card is granted and any
\* other is denied.
HandleScan ==
    /\ pc = "scan"
    /\ LET m1 == isMaster(match, readCard, masterCard)
           f  == findID(eeprom, m1, storedCard, readCard)
       IN  IF programMode
           THEN /\ UNCHANGED <<openDoor, servo>>
                /\ IF m1
                   THEN /\ match' = m1
                        /\ signal' = "nak"
                        /\ programMode' = FALSE
                        /\ pc' = "poll"
                        /\ UNCHANGED <<storedCard, loc>>
                   ELSE IF f.hang
                   THEN /\ match' = f.match
                        /\ storedCard' = f.stored
                        /\ signal' = "none"
                        /\ pc' = "hang"
                        /\ UNCHANGED <<programMode, loc>>
                   ELSE \E p \in (IF f.ret
                                  THEN deleteIDPrep(eeprom, f.match, f.stored, readCard)
                                  ELSE {writeIDPrep(eeprom, f.match, f.stored, readCard)}) :
                        /\ match' = p.match
                        /\ storedCard' = p.stored
                        /\ IF p.kind = "go"
                           THEN /\ pc' = IF f.ret THEN "deleteID" ELSE "writeID"
                                /\ loc' = [x |-> 0, j |-> 0, num |-> p.num,
                                           start |-> p.start, looping |-> p.looping]
                                /\ signal' = "none"
                                /\ UNCHANGED programMode
                           ELSE IF p.kind = "fail"
                           THEN /\ pc' = "poll"
                                /\ signal' = "two"
                                /\ programMode' = FALSE
                                /\ UNCHANGED loc
                           ELSE /\ pc' = "hang"
                                /\ signal' = "none"
                                /\ UNCHANGED <<programMode, loc>>
           ELSE IF m1
                THEN /\ match' = m1
                     /\ signal' = "one"
                     /\ servo' = grantedServo(openDoor)
                     /\ openDoor' = ~openDoor
                     /\ pc' = "repoll"
                     /\ UNCHANGED <<storedCard, programMode, loc>>
                ELSE /\ match' = f.match
                     /\ storedCard' = f.stored
                     /\ IF f.hang
                        THEN /\ pc' = "hang"
                             /\ signal' = "none"
                             /\ UNCHANGED <<servo, openDoor>>
                        ELSE IF f.ret
                        THEN /\ pc' = "poll"
                             /\ signal' = "one"
                             /\ servo' = grantedServo(openDoor)
                             /\ openDoor' = ~openDoor
                        ELSE /\ pc' = "poll"
                             /\ signal' = "two"
                             /\ UNCHANGED <<servo, openDoor>>
                     /\ UNCHANGED <<programMode, loc>>
    /\ wrote' = FALSE
    /\ UNCHANGED <<eeprom, successRead, readCard, masterCard, pinWipe, losses, driver>>

\* The second read without the isMaster test of line 305: any card read in
\* the window enters programming mode.
MasterRepollAnyCard ==
    /\ pc = "repoll"
    /\ \E r \in Cards \cup {NoCard} :
          IF r = NoCard
          THEN /\ signal' = "none"
               /\ UNCHANGED <<readCard, match, programMode>>
          ELSE /\ readCard' = r
               /\ match' = isMaster(match, r, masterCard)
               /\ programMode' = TRUE
               /\ signal' = "cycle"
    /\ pc' = "poll"
    /\ wrote' = FALSE
    /\ UNCHANGED <<eeprom, openDoor, successRead, storedCard, masterCard, servo,
                   loc, pinWipe, losses, driver>>

\* loop(), lines 300-329: after the 2 s delay one more getID(); a master
\* read enters programming mode, another card leaves it, no card changes
\* nothing.
MasterRepoll ==
    /\ pc = "repoll"
    /\ \E r \in Cards \cup {NoCard} :
          IF r = NoCard
          THEN /\ signal' = "none"
               /\ UNCHANGED <<readCard, match, programMode>>
          ELSE /\ readCard' = r
               /\ match' = isMaster(match, r, masterCard)
               /\ programMode' = isMaster(match, r, masterCard)
               /\ signal' = IF isMaster(match, r, masterCard) THEN "cycle" ELSE "nak"
    /\ pc' = "poll"
    /\ wrote' = FALSE
    /\ UNCHANGED <<eeprom, openDoor, successRead, storedCard, masterCard, servo,
                   loc, pinWipe, losses, driver>>

\* writeID, lines 426-431, one EEPROM.write per step; after the last one
\* loop() gives the ack tones and clears programMode (lines 277, 283).
WriteIDStep ==
    /\ pc = "writeID"
    /\ eeprom' = writeIDWrite(eeprom, readCard, loc.num, loc.start, loc.j)
    /\ IF loc.j + 1 < WriteIDWrites
       THEN /\ loc' = [loc EXCEPT !.j = loc.j + 1]
            /\ pc' = "writeID"
            /\ signal' = "none"
            /\ UNCHANGED programMode
       ELSE /\ loc' = NoLoc
            /\ pc' = "poll"
            /\ signal' = "ack"
            /\ programMode' = FALSE
    /\ wrote' = TRUE
    /\ UNCHANGED <<match, openDoor, successRead, storedCard, readCard, masterCard,
                   servo, pinWipe, losses, driver>>

\* deleteID's writes without the `programMode = false` of line 283.
DeleteIDStepSticky ==
    /\ pc = "deleteID"
    /\ eeprom' = deleteIDWrite(eeprom, loc.num, loc.start, loc.looping, loc.j)
    /\ IF loc.j + 1 < deleteIDWrites(loc.looping)
       THEN /\ loc' = [loc EXCEPT !.j = loc.j + 1]
            /\ pc' = "deleteID"
            /\ signal' = "none"
       ELSE /\ loc' = NoLoc
            /\ pc' = "poll"
            /\ signal' = "nak"
    /\ wrote' = TRUE
    /\ UNCHANGED <<match, programMode, openDoor, successRead, storedCard, readCard,
                   masterCard, servo, pinWipe, losses, driver>>

\* deleteID, lines 456-464, one EEPROM.write per step; after the last one
\* loop() gives the nak tones and clears programMode (lines 266, 283).
DeleteIDStep ==
    /\ pc = "deleteID"
    /\ eeprom' = deleteIDWrite(eeprom, loc.num, loc.start, loc.looping, loc.j)
    /\ IF loc.j + 1 < deleteIDWrites(loc.looping)
       THEN /\ loc' = [loc EXCEPT !.j = loc.j + 1]
            /\ pc' = "deleteID"
            /\ signal' = "none"
            /\ UNCHANGED programMode
       ELSE /\ loc' = NoLoc
            /\ pc' = "poll"
            /\ signal' = "nak"
            /\ programMode' = FALSE
    /\ wrote' = TRUE
    /\ UNCHANGED <<match, openDoor, successRead, storedCard, readCard, masterCard,
                   servo, pinWipe, losses, driver>>

\* Power is lost and restored (or the device is reset): the EEPROM and the
\* servo horn stay as they are, the globals are initialised again.
PowerLoss ==
    /\ pc # "boot"
    /\ losses < MaxLosses
    /\ losses' = losses + 1
    /\ pc' = "boot"
    /\ match' = FALSE
    /\ programMode' = FALSE
    /\ openDoor' = TRUE
    /\ successRead' = 0
    /\ storedCard' = ZeroCard
    /\ readCard' = ZeroCard
    /\ masterCard' = ZeroCard
    /\ signal' = "none"
    /\ loc' = NoLoc
    /\ wrote' = FALSE
    /\ UNCHANGED <<eeprom, servo, pinWipe, driver>>

Next ==
    \/ SetupStart
    \/ WipeConfirm
    \/ WipeStep
    \/ CheckMaster
    \/ BootstrapScan
    \/ DefineMasterStep
    \/ LoopPoll
    \/ MasterWipeConfirm
    \/ HandleScan
    \/ MasterRepoll
    \/ WriteIDStep
    \/ DeleteIDStep
    \/ PowerLoss

Spec == Init /\ [][Next]_vars

\* Fairness of the running program: the processor keeps executing, so every
\* step that waits for no card is eventually taken. A power loss and a card
\* placed on the reader during bootstrap are not owed by anyone.
Run ==
    \/ SetupStart
    \/ WipeConfirm
    \/ WipeStep
    \/ CheckMaster
    \/ DefineMasterStep
    \/ LoopPoll
    \/ MasterWipeConfirm
    \/ HandleScan
    \/ MasterRepoll
    \/ WriteIDStep
    \/ DeleteIDStep

SpecFair == Init /\ [][Next]_vars /\ WF_vars(Run)

\* --------------------------------------------------------- a device in use
\* The controller started on a device that has been in use: the master is
\* defined and AgedCount cards have been added, one programming-mode scan
\* each, since the last wipe. AgedCount is the last slot whose uint8_t start
\* address (line 424) is the address the layout gives it.
AgedCount == ((ByteMod - 1 - HeaderBytes) \div 4) + 1
AgedMaster == <<9, 9, 9, 9>>
AgedCards == [i \in 1..AgedCount |-> <<i, 10, 7, 7>>]

\* The store of that device: bootstrap writes the master and the marker
\* (lines 197-201), and the n-th writeID, n <= AgedCount, writes the count n
\* and the card at 6 + 4 * (n - 1) (lines 423-429).
AgedStore ==
    [a \in Addr |->
        IF a = 0 THEN AgedCount
        ELSE IF a = 1 THEN MagicNumber
        ELSE IF a < HeaderBytes THEN AgedMaster[a - 1]
        ELSE IF a < HeaderBytes + (4 * AgedCount)
        THEN AgedCards[((a - HeaderBytes) \div 4) + 1][((a - HeaderBytes) % 4) + 1]
        ELSE 0]

InitAged ==
    /\ eeprom = AgedStore
    /\ Boot
    /\ servo \in {ServoClosed, ServoOpen}
    /\ pc = "boot"
    /\ wrote = FALSE
    /\ pinWipe = HIGH
    /\ losses = 0
    /\ inserted = AgedCards
    /\ last = NoCall
    /\ ops = 0
    /\ removed = FALSE

\* One session of that device, from power-on until power is removed: the
\* master is defined, so bootstrap is not part of it.
NextAged ==
    \/ SetupStart
    \/ WipeConfirm
    \/ WipeStep
    \/ CheckMaster
    \/ LoopPoll
    \/ MasterWipeConfirm
    \/ HandleScan
    \/ MasterRepoll
    \/ WriteIDStep
    \/ DeleteIDStep

SpecAged == InitAged /\ [][NextAged]_vars

\* ------------------------------------------------------------- store driver
\* The store functions called directly, as a test bench would: from the
\* empty store, first a canonical fill with pairwise distinct credentials,
\* then, at the fill levels of OpLevels, at most MaxOps calls of writeID,
\* deleteID and findID with the cards of Cards.
OpLevels == {0, 1, 2, 62, 63, 64, NMax - 1, NMax, NMax + 1}
AtOpLevel == ops > 0 \/ Len(inserted) \in OpLevels
Gen(i) == <<((i - 1) % 255) + 1, 10 + ((i - 1) \div 255), 7, 7>>

InitStore ==
    /\ eeprom = ZeroStore
    /\ Boot
    /\ servo = ServoClosed
    /\ pc = "driver"
    /\ wrote = FALSE
    /\ pinWipe = HIGH
    /\ losses = 0
    /\ inserted = <<>>
    /\ last = NoCall
    /\ ops = 0
    /\ removed = FALSE

DriverCall(op, c, r) ==
    /\ eeprom' = r.eeprom
    /\ match' = r.match
    /\ storedCard' = r.stored
    /\ last' = [op |-> op, arg |-> c, ret |-> r.ret, hang |-> r.hang,
                pre |-> eeprom, preMatch |-> match]
    /\ pc' = IF r.hang THEN "driver_hang" ELSE "driver"
    /\ UNCHANGED <<programMode, openDoor, successRead, readCard, masterCard,
                   servo, signal, loc, wrote, pinWipe, losses>>

DriverFill ==
    /\ pc = "driver"
    /\ ops = 0
    /\ LET c == Gen(Len(inserted) + 1)
       IN  /\ DriverCall("insert", c, writeID(eeprom, match, storedCard, c))
           /\ inserted' = Append(inserted, c)
    /\ UNCHANGED <<ops, removed>>

DriverInsert ==
    /\ pc = "driver"
    /\ ops < MaxOps
    /\ AtOpLevel
    /\ \E c \in Cards :
          /\ DriverCall("insert", c, writeID(eeprom, match, storedCard, c))
          /\ inserted' = Append(inserted, c)
    /\ ops' = ops + 1
    /\ UNCHANGED removed

DriverRemove ==
    /\ pc = "driver"
    /\ ops < MaxOps
    /\ AtOpLevel
    /\ \E c \in Cards :
          \E r \in deleteID(eeprom, match, storedCard, c) :
             DriverCall("remove", c, r)
    /\ ops' = ops + 1
    /\ removed' = TRUE
    /\ UNCHANGED inserted

DriverFind ==
    /\ pc = "driver"
    /\ ops < MaxOps
    /\ AtOpLevel
    /\ \E c \in Cards :
          LET f == findID(eeprom, match, storedCard, c)
          IN  DriverCall("find", c, [eeprom |-> eeprom, match |-> f.match,
                                     stored |-> f.stored, ret |-> f.ret,
                                     hang |-> f.hang])
    /\ ops' = ops + 1
    /\ UNCHANGED <<inserted, removed>>

NextStore ==
    \/ DriverFill
    \/ DriverInsert
    \/ DriverRemove
    \/ DriverFind

SpecStore == InitStore /\ [][NextStore]_vars

\* ------------------------------------------------------------------- claims
\* The registry as the layout defines it: slot i (1-based) occupies the four
\* bytes from 6 + 4 * (i - 1); the master occupies bytes 2..5.
Slot(e, i) == [k \in 1..4 |-> e[HeaderBytes + (4 * (i - 1)) + (k - 1)]]
SlotIdx(e) == 1..(IF e[0] <= NMax THEN e[0] ELSE NMax)
SlotsOf(e) == [i \in SlotIdx(e) |-> Slot(e, i)]
MasterOf(e) == [k \in 1..4 |-> e[2 + (k - 1)]]
PresentIn(e, c) == \E i \in SlotIdx(e) : Slot(e, i) = c
Distinct(q) == \A i, j \in 1..Len(q) : i # j => q[i] # q[j]
\* q without its first entry equal to c.
RemoveFirst(q, c) ==
    LET at == CHOOSE i \in 1..Len(q) : q[i] = c /\ \A j \in 1..(i - 1) : q[j] # c
    IN  [i \in 1..(Len(q) - 1) |-> IF i < at THEN q[i] ELSE q[i + 1]]

\* C1: from the empty store, after writeID of k <= N_max pairwise distinct,
\* non-all-zero credentials, findID is true for each of them and count = k.
C1_InsertsAreContained ==
    (pc = "driver" /\ ~removed /\ Len(inserted) <= NMax /\ Distinct(inserted))
    => /\ eeprom[0] = Len(inserted)
       /\ \A i \in 1..Len(inserted) :
             findID(eeprom, match, storedCard, inserted[i]).ret

\* C2: with count = N_max, writeID of a credential not in the store fails
\* and changes no byte; so count never exceeds N_max.
C2_StoreFull ==
    /\ eeprom[0] <= NMax
    /\ (last.op = "insert" /\ last.pre[0] = NMax /\ ~PresentIn(last.pre, last.arg))
       => (~last.ret /\ eeprom = last.pre)

\* C3: after any sequence of handled scans (no power loss), the registered
\* credentials in slots 1..count are pairwise distinct.
C3_NoDuplicates ==
    (pc = "poll" /\ losses = 0)
    => \A i, j \in SlotIdx(eeprom) : i < j => Slot(eeprom, i) # Slot(eeprom, j)

\* C4: whenever the master is defined (marker = 143), the master credential
\* equals none of the credentials in slots 1..count.
C4_MasterNotRegistered ==
    (eeprom[1] = MagicNumber)
    => \A i \in SlotIdx(eeprom) : Slot(eeprom, i) # MasterOf(eeprom)

\* C5: deleteID of a credential present in a store with count >= 1 succeeds,
\* lowers count by one, leaves the other entries in their order, and leaves
\* the old last slot zero-filled.
C5_RemoveCompacts ==
    (last.op = "remove" /\ last.pre[0] >= 1 /\ last.pre[0] <= NMax
        /\ PresentIn(last.pre, last.arg))
    => /\ last.ret
       /\ eeprom[0] = last.pre[0] - 1
       /\ SlotsOf(eeprom) = RemoveFirst(SlotsOf(last.pre), last.arg)
       /\ Slot(eeprom, last.pre[0]) = ZeroCard

\* C6: once the main loop runs after a bootstrap with card M, the master is
\* defined, a scan of M is taken for the master whatever came before, and no
\* other card (the all-zero one included) is.
C6_MasterRecognised ==
    (pc = "scan" /\ losses = 0)
    => /\ eeprom[1] = MagicNumber
       /\ isMaster(match, readCard, masterCard) <=> (readCard = masterCard)
       /\ ~isMaster(match, ZeroCard, masterCard)

\* C7: during writeID the count is incremented only after the four payload
\* bytes are written: whenever the count already includes the new slot, that
\* slot holds the whole credential.
C7_CountAfterPayload ==
    (pc = "writeID" /\ eeprom[0] # loc.num)
    => Slot(eeprom, eeprom[0]) = readCard

\* C8: during deleteID the count is decremented only after the shift and the
\* zero-fill: while a write of deleteID is pending the count is the old one.
C8_CountAfterShift ==
    (pc = "deleteID") => (eeprom[0] = loc.num)

\* C9: a confirmed full wipe zeroes every byte of the store and then goes on
\* to the master check with count 0 and the master undefined (unless power
\* is lost first).
C9_WipeZeroesAll ==
    (pc = "wipe") ~> (pc = "boot" \/ (pc = "check_master" /\ eeprom = ZeroStore))

\* C10: the wipe loop of a confirmed full wipe eventually ends.
C10_WipeTerminates ==
    (pc = "wipe") ~> (pc # "wipe")

\* C11: a step of the full wipe issues a write only to a byte whose value is
\* not zero; on an all-zero store it writes nothing and the store stays as
\* it is (so wiping again after a wipe changes nothing).
C11_WipeSkipsZero ==
    [][(pc = "wipe")
        => /\ wrote' => (eeprom[loc.x] # 0 /\ eeprom'[loc.x] = 0)
           /\ \A a \in Addr : eeprom'[a] # eeprom[a] => a = loc.x
           /\ (eeprom = ZeroStore) => (~wrote' /\ eeprom' = eeprom)]_vars

\* The wipe has just written the non-zero marker byte and now stands at a
\* zero byte, which it will skip.
C11_Witness ==
    pc = "wipe" /\ wrote /\ loc.x = 2 /\ eeprom[2] = 0 /\ eeprom[3] # 0

\* C12: neither wipe path changes a persistent byte unless the wipe input
\* read LOW both at the first sample and at the sample taken after the
\* window; when the second sample is HIGH the store is unchanged and the
\* controller goes on (start-up: to the master check; main loop: to the scan
\* just read, or to polling).
C12_WipeNeedsBothSamples ==
    [][/\ (pc' = "wipe" /\ pc # "wipe")
            => (pc = "wipe_wait" /\ pinWipe = LOW /\ pinWipe' = LOW)
       /\ (pc \in {"boot", "wipe_wait", "wipe", "mwipe_wait"} /\ eeprom' # eeprom)
            => (pinWipe = LOW /\ pinWipe' = LOW /\ pc \in {"wipe", "mwipe_wait"})
       /\ (pc = "wipe_wait" /\ pinWipe' = HIGH)
            => (eeprom' = eeprom /\ pc' = "check_master")
       /\ (pc = "mwipe_wait" /\ pinWipe' = HIGH)
            => (eeprom' = eeprom /\ pc' = IF successRead = 1 THEN "scan" ELSE "poll")]_vars

\* A start-up wipe of a populated store was cancelled at the second sample.
C12_Witness ==
    /\ pc = "check_master"
    /\ signal = "two"
    /\ pinWipe = HIGH
    /\ eeprom[1] = MagicNumber
    /\ eeprom[0] > 0

\* C13: a confirmed master-only wipe changes the marker byte and nothing
\* else, and the controller then halts: from the halt nothing happens but a
\* restart, and a restart that finds the marker undefined reaches the main
\* loop only through bootstrap (the master check leads to bootstrap).
C13_MasterWipeHalts ==
    [][/\ (pc = "mwipe_wait" /\ eeprom' # eeprom)
            => /\ pc' = "halt"
               /\ eeprom' = [eeprom EXCEPT ![1] = 0]
               /\ UNCHANGED <<servo, openDoor, programMode>>
       /\ (pc' = "halt") => (pc = "mwipe_wait" /\ pinWipe' = LOW /\ eeprom'[1] = 0)
       /\ (pc = "halt")
            => (pc' = "boot" /\ eeprom[1] = 0 /\ UNCHANGED <<eeprom, servo>>)
       /\ (pc \in {"boot", "wipe_wait", "wipe", "check_master"}
              /\ eeprom[1] # MagicNumber)
            => /\ eeprom'[1] # MagicNumber
               /\ pc' \in {"boot", "reader_halt", "wipe_wait", "wipe",
                            "check_master", "bootstrap"}
       /\ (pc = "check_master" /\ eeprom[1] # MagicNumber)
            => pc' \in {"bootstrap", "boot"}]_vars

\* After a master-only wipe of a store with registered cards and a restart,
\* the controller is in bootstrap with the count as it was.
C13_Witness ==
    pc = "bootstrap" /\ losses > 0 /\ eeprom[1] = 0 /\ eeprom[0] > 0
        /\ Slot(eeprom, 1) \in Cards

\* C14: in normal mode a scan of the master leads to the second read, and a
\* second read of the master enters programming mode; in programming mode a
\* scan of a card that is neither the master nor registered goes to writeID,
\* which ends with the card contained, the count one higher, the ack signal
\* and normal mode.
C14_ProgramAdd ==
    [][/\ (pc = "scan" /\ ~programMode /\ readCard = masterCard)
            => pc' \in {"repoll", "boot"}
       /\ (pc = "repoll" /\ pc' = "poll" /\ signal' # "none" /\ readCard' = masterCard)
            => programMode'
       /\ (pc = "scan" /\ programMode /\ readCard # masterCard
              /\ ~PresentIn(eeprom, readCard))
            => pc' \in {"writeID", "boot"}
       /\ (pc = "writeID" /\ pc' = "poll")
            => /\ signal' = "ack"
               /\ ~programMode'
               /\ eeprom'[0] = loc.num + 1
               /\ PresentIn(eeprom', readCard)
               /\ findID(eeprom', match', storedCard', readCard).ret]_vars

\* C15: a scan handled in programming mode ends in normal mode whatever the
\* card and the outcome, after at most one writeID or deleteID (one change
\* of the count); programming mode is entered only by the second read after
\* a master scan, so it never lasts for two handled scans.
C15_ProgrammingOneScan ==
    [][/\ (pc = "scan" /\ programMode)
            => pc' \in {"poll", "writeID", "deleteID", "boot"}
       /\ (pc \in {"scan", "writeID", "deleteID"} /\ programMode /\ pc' = "poll")
            => ~programMode'
       /\ (pc = "writeID") => (programMode /\ pc' \in {"writeID", "poll", "boot"})
       /\ (pc = "deleteID") => (programMode /\ pc' \in {"deleteID", "poll", "boot"})
       /\ (pc \in {"writeID", "deleteID"} /\ loc.j > 0) => eeprom'[0] = eeprom[0]
       /\ (~programMode /\ programMode') => pc = "repoll"]_vars

\* A removal made in programming mode has just ended, in normal mode.
C15_Witness ==
    pc = "poll" /\ signal = "nak" /\ wrote /\ ~programMode

\* C16: in normal mode a scan of a card that is neither the master nor equal
\* to a registered slot gives the deny signal, commands no servo position,
\* leaves the mode normal and changes no persistent byte; a grant is given
\* only for the master or a card equal to a registered slot.
C16_DenyByDefault ==
    [][/\ (pc = "scan" /\ ~programMode /\ pc' # "boot"
              /\ readCard # masterCard /\ readCard # MasterOf(eeprom)
              /\ ~PresentIn(eeprom, readCard))
            => /\ pc' = "poll"
               /\ signal' = "two"
               /\ ~programMode'
               /\ UNCHANGED <<servo, openDoor, eeprom>>
       /\ (pc = "scan" /\ pc' # "boot"
              /\ (signal' = "one" \/ servo' # servo \/ openDoor' # openDoor))
            => /\ ~programMode
               /\ \/ readCard = masterCard
                  \/ readCard = MasterOf(eeprom)
                  \/ PresentIn(eeprom, readCard)]_vars

\* An unknown card has just been denied while cards are registered and the
\* lock is in the open position.
C16_Witness ==
    /\ pc = "poll"
    /\ signal = "two"
    /\ ~programMode
    /\ readCard # masterCard
    /\ ~PresentIn(eeprom, readCard)
    /\ eeprom[0] > 0
    /\ servo = ServoOpen

\* C17: while the master is undefined the controller stays in bootstrap (no
\* grant, no deny, no servo command, no change of the count, no programming
\* mode) until a scan has been stored as the master with the marker; and
\* whenever the main loop runs the marker is defined and the master in
\* memory equals the persisted master.
C17_BootstrapBlocks ==
    /\ [](pc \in {"poll", "mwipe_wait", "scan", "repoll", "writeID", "deleteID"}
            => (eeprom[1] = MagicNumber /\ masterCard = MasterOf(eeprom)))
    /\ [][/\ (pc = "bootstrap") => (eeprom[1] # MagicNumber /\ pc' \in {"define_master", "boot"})
          /\ (pc = "define_master")
               => /\ pc' \in {"define_master", "poll", "boot"}
                  /\ signal' \in {"none", "ack"}
                  /\ pc' = "poll" => MasterOf(eeprom') = readCard
          /\ (pc \in {"bootstrap", "define_master"} /\ pc' # "boot")
               => /\ UNCHANGED <<servo, openDoor, programMode>>
                  /\ eeprom'[0] = eeprom[0]
                  /\ signal' \notin {"one", "two"}]_vars

\* C18: writeID of a credential already present in slots 1..count returns
\* failure and leaves the count byte and every slot byte as they were.
C18_InsertPresentFails ==
    (last.op = "insert" /\ PresentIn(last.pre, last.arg))
    => /\ ~last.ret
       /\ eeprom[0] = last.pre[0]
       /\ \A a \in Addr : a >= HeaderBytes => eeprom[a] = last.pre[a]

\* C19: setup commands the closed position and the toggle bit starts at
\* "open next"; every grant commands the position opposite to the last one
\* commanded (so the first grant after a restart opens) and flips the bit;
\* no other step of the running program commands the servo or flips the bit.
C19_GrantsAlternate ==
    /\ [](pc \notin {"boot", "driver", "driver_hang"}
            => servo = IF openDoor THEN ServoClosed ELSE ServoOpen)
    /\ [][/\ (pc = "boot" /\ pc' # "boot") => (servo' = ServoClosed /\ openDoor')
          /\ (pc = "scan" /\ signal' = "one")
               => /\ servo' = IF servo = ServoClosed THEN ServoOpen ELSE ServoClosed
                  /\ openDoor' = ~openDoor
          /\ (pc # "boot" /\ pc' # "boot" /\ ~(pc = "scan" /\ signal' = "one"))
               => UNCHANGED <<servo, openDoor>>]_vars

\* The second grant since the restart has just closed the lock again.
C19_Witness ==
    pc \in {"poll", "repoll"} /\ signal = "one" /\ servo = ServoClosed /\ openDoor

\* Whether stores e and f have the same count byte and the same slot bytes
\* (they may differ in the marker and in the master bytes 2..5).
SameRegistry(e, f) ==
    f = [e EXCEPT ![1] = f[1], ![2] = f[2], ![3] = f[3], ![4] = f[4], ![5] = f[5]]

\* C20 as stated: the count byte and the slot bytes change only in a step of
\* writeID or deleteID made in programming mode; programming mode is entered
\* only by the second read after a normal-mode master scan, when that read
\* is the master; any other second read, or none, leaves the mode normal and
\* the store unchanged.
C20_StoreChangesOnlyInProgramming ==
    /\ [](pc = "repoll" => (~programMode /\ readCard = masterCard))
    /\ [][/\ ~SameRegistry(eeprom, eeprom')
               => (programMode /\ pc \in {"writeID", "deleteID"})
          /\ (pc \in {"writeID", "deleteID"}) => programMode
          /\ (~programMode /\ programMode')
               => (pc = "repoll" /\ readCard' = masterCard /\ signal' = "cycle")
          /\ (pc = "repoll" /\ pc' = "poll"
                 /\ (signal' = "none" \/ readCard' # masterCard))
               => (~programMode' /\ eeprom' = eeprom)]_vars

\* C20 with the start-up wipe named: the count byte and the slot bytes
\* change only in a step of writeID or deleteID made in programming mode, or
\* in a step of the confirmed full wipe at start-up; the rest as stated.
C20_StoreChangesGated ==
    /\ [](pc = "repoll" => (~programMode /\ readCard = masterCard))
    /\ [][/\ ~SameRegistry(eeprom, eeprom')
               => \/ programMode /\ pc \in {"writeID", "deleteID"}
                  \/ pc = "wipe" /\ pinWipe = LOW /\ eeprom'[loc.x] = 0
          /\ (pc \in {"writeID", "deleteID"}) => programMode
          /\ (~programMode /\ programMode')
               => (pc = "repoll" /\ readCard' = masterCard /\ signal' = "cycle")
          /\ (pc = "repoll" /\ pc' = "poll"
                 /\ (signal' = "none" \/ readCard' # masterCard))
               => (~programMode' /\ eeprom' = eeprom)]_vars

\* A card has just been added in programming mode, entered by two master
\* scans; the mode is normal again.
C20_Witness ==
    /\ pc = "poll"
    /\ signal = "ack"
    /\ wrote
    /\ ~programMode
    /\ eeprom[0] > 0
    /\ PresentIn(eeprom, readCard)
    /\ losses = 0

\* C21: no EEPROM.write of writeID or deleteID goes to the marker (address
\* 1) or to the persisted master (addresses 2..5), whatever the count byte;
\* so after every add or remove the persisted master is still the master
\* the controller holds in memory.
C21_MasterBytesUntouched ==
    /\ [][(pc \in {"writeID", "deleteID"} /\ pc' \in {"writeID", "deleteID", "poll"})
            => \A a \in 1..5 : eeprom'[a] = eeprom[a]]_vars
    /\ []((pc = "poll" /\ wrote) => masterCard = MasterOf(eeprom))

\* C22: while the master is being defined the marker stays undefined and
\* the bytes written so far are those of the scanned card; the marker is
\* written only after all four of them, so a power loss during the
\* definition leaves the marker undefined (the restart prompts again), and
\* at the master check of a restart a defined marker comes with a whole
\* master credential.
C22_MasterBeforeMarker ==
    /\ [](pc = "define_master"
            => /\ eeprom[1] # MagicNumber
               /\ \A k \in 1..loc.j : eeprom[2 + (k - 1)] = readCard[k])
    /\ []((pc = "check_master" /\ eeprom[1] = MagicNumber)
            => MasterOf(eeprom) \in Cards)
    /\ [][(pc = "define_master")
            => /\ (eeprom'[1] = MagicNumber)
                    => (pc' = "poll" /\ MasterOf(eeprom) = readCard
                                    /\ MasterOf(eeprom') = readCard
                                    /\ masterCard' = readCard)
               /\ (pc' = "poll") => eeprom'[1] = MagicNumber
               /\ (pc' = "boot") => (eeprom' = eeprom /\ eeprom'[1] # MagicNumber)]_vars

\* Power was lost in the middle of a master definition: the restart is in
\* bootstrap again, with the marker undefined over a partly written master.
C22_Witness ==
    /\ pc = "bootstrap"
    /\ losses > 0
    /\ eeprom[1] # MagicNumber
    /\ MasterOf(eeprom) \notin Cards \cup {ZeroCard}

====
